---- MODULE Spec2Model ----
(***************************************************************************)
(* Model of yt_dlp/extractor/damtomo.py: the two extractors                *)
(* DamtomoVideoIE and DamtomoRecordIE and their _real_extract method.      *)
(*                                                                         *)
(* Text is modelled as a sequence of characters, every character a string *)
(* of the module.  The two hiragana of the polite suffix are written "sa" *)
(* (U+3055) and "n" (U+3093): each is ONE character of the text.          *)
(* An optional Python value is None (the empty tuple) or Some(v).          *)
(***************************************************************************)
EXTENDS Integers, Sequences, FiniteSets, TLC

VARIABLES ie, video_id, pc, requests, handle_url, webpage, description,
          uploader_id, data_dict, title, stream_tree, m3u8_url, result, err

vars == <<ie, video_id, pc, requests, handle_url, webpage, description,
          uploader_id, data_dict, title, stream_tree, m3u8_url, result, err>>

None == << >>

Some(v) == <<v>>

Val(o) == o[1]

(***************************************************************************)
(* Bounds of the inputs.                                                   *)
(***************************************************************************)
\* chunks concatenated into a "date", "audience" or "nice" content
MaxChunks == 2

\* chunks concatenated into a "user_name" content
MaxNameChunks == 3

\* occurrences of one label in a page
MaxBlocks == 2

(***************************************************************************)
(* Characters and the character classes of Python's re.                    *)
(***************************************************************************)
Digits == {"0", "1", "2", "3", "4", "5", "6", "7", "8", "9"}

DigitValue(c) ==
    CASE c = "0" -> 0 [] c = "1" -> 1 [] c = "2" -> 2 [] c = "3" -> 3
      [] c = "4" -> 4 [] c = "5" -> 5 [] c = "6" -> 6 [] c = "7" -> 7
      [] c = "8" -> 8 [] c = "9" -> 9

\* \s
Whitespace == {" ", "\n", "\t"}

IsSpace(c) == c \in Whitespace

\* \d
IsDigit(c) == c \in Digits

\* the polite suffix, two characters
SAN == <<"sa", "n">>

Slice(s, i, j) == IF i > j THEN << >> ELSE SubSeq(s, i, j)

RECURSIVE Concat(_)
Concat(ss) == IF ss = << >> THEN << >> ELSE Head(ss) \o Concat(Tail(ss))

\* str.strip()
RECURSIVE LStrip(_)
LStrip(s) == IF s # << >> /\ IsSpace(Head(s)) THEN LStrip(Tail(s)) ELSE s

RECURSIVE RStrip(_)
RStrip(s) ==
    IF s # << >> /\ IsSpace(s[Len(s)]) THEN RStrip(Slice(s, 1, Len(s) - 1)) ELSE s

Strip(s) == RStrip(LStrip(s))

\* str.replace(old, '') for a one-character old
RECURSIVE RemoveChar(_, _)
RemoveChar(s, c) ==
    IF s = << >> THEN << >>
    ELSE IF Head(s) = c THEN RemoveChar(Tail(s), c)
         ELSE <<Head(s)>> \o RemoveChar(Tail(s), c)

\* str.replace(old, new) for one-character old and new
RECURSIVE ReplaceChar(_, _, _)
ReplaceChar(s, c, d) ==
    IF s = << >> THEN << >>
    ELSE <<(IF Head(s) = c THEN d ELSE Head(s))>> \o ReplaceChar(Tail(s), c, d)

\* re.sub(r'\s+', ' ', v): every maximal run of whitespace becomes one space
RECURSIVE CollapseSpaces(_)
CollapseSpaces(v) ==
    IF v = << >> THEN << >>
    ELSE IF IsSpace(Head(v)) THEN <<" ">> \o CollapseSpaces(LStrip(v))
         ELSE <<Head(v)>> \o CollapseSpaces(Tail(v))

\* the first index >= i of character c in s, 0 when there is none
RECURSIVE IndexFrom(_, _, _)
IndexFrom(s, c, i) ==
    IF i > Len(s) THEN 0
    ELSE IF s[i] = c THEN i ELSE IndexFrom(s, c, i + 1)

\* re.sub('<.*?>', '', html): each "<" up to the nearest following ">" goes
RECURSIVE StripTags(_)
StripTags(html) ==
    IF html = << >> THEN << >>
    ELSE IF Head(html) = "<" /\ IndexFrom(html, ">", 2) # 0
         THEN StripTags(Slice(html, IndexFrom(html, ">", 2) + 1, Len(html)))
         ELSE <<Head(html)>> \o StripTags(Tail(html))

\* utils.clean_html: newlines to spaces, tags removed, the result stripped
clean_html(html) == Strip(StripTags(ReplaceChar(html, "\n", " ")))

(***************************************************************************)
(* The regular expressions of the post-processing and of the assembly.     *)
(***************************************************************************)
\* the first index >= i of s that holds no whitespace, Len(s) + 1 at the end
RECURSIVE SkipSpaces(_, _)
SkipSpaces(s, i) ==
    IF i <= Len(s) /\ IsSpace(s[i]) THEN SkipSpaces(s, i + 1) ELSE i


\* mutant: the pattern without its end anchor
SanMatchEnd_Unanchored(s, i) ==
    LET j == SkipSpaces(s, i)
    IN  IF j + 1 <= Len(s) /\ Slice(s, j, j + 1) = SAN
        THEN SkipSpaces(s, j + 2) ELSE 0

\* r'\s*さん\s*$' matched at index i: the index after the match, 0 for no
\* match.  The greedy \s* takes a trailing newline too, so a match always
\* ends at the end of the string.
SanMatchEnd(s, i) ==
    LET j == SkipSpaces(s, i)
        k == SkipSpaces(s, j + 2)
    IN  IF j + 1 <= Len(s) /\ Slice(s, j, j + 1) = SAN /\ k = Len(s) + 1
        THEN k ELSE 0

\* re.sub(r'\s*さん\s*$', '', s), scanning from index i
RECURSIVE SubSanFrom(_, _)
SubSanFrom(s, i) ==
    IF i > Len(s) THEN << >>
    ELSE IF SanMatchEnd(s, i) # 0 THEN SubSanFrom(s, SanMatchEnd(s, i))
         ELSE <<s[i]>> \o SubSanFrom(s, i + 1)

SubSan(s) == SubSanFrom(s, 1)

\* r'(\d\d\d\d/\d\d/\d\d)' matches at index i
DateMatchAt(s, i) ==
    /\ i + 9 <= Len(s)
    /\ \A k \in {0, 1, 2, 3, 5, 6, 8, 9} : IsDigit(s[i + k])
    /\ s[i + 4] = "/"
    /\ s[i + 7] = "/"


\* mutant: the last match in place of the first
RECURSIVE SearchDateFrom_Last(_, _)
SearchDateFrom_Last(s, i) ==
    IF i + 9 > Len(s) THEN None
    ELSE IF SearchDateFrom_Last(s, i + 1) # None THEN SearchDateFrom_Last(s, i + 1)
         ELSE IF DateMatchAt(s, i) THEN Some(Slice(s, i, i + 9)) ELSE None

\* _search_regex(r'(\d\d\d\d/\d\d/\d\d)', s, default=None), from index i
RECURSIVE SearchDateFrom(_, _)
SearchDateFrom(s, i) ==
    IF i + 9 > Len(s) THEN None
    ELSE IF DateMatchAt(s, i) THEN Some(Slice(s, i, i + 9))
         ELSE SearchDateFrom(s, i + 1)

SearchDate(s) == SearchDateFrom(s, 1)


\* mutant: r'(\d)' in place of r'(\d+)'
SkipDigits_One(s, i) == i + 1

\* the index after the run of digits that starts at i
RECURSIVE SkipDigits(_, _)
SkipDigits(s, i) ==
    IF i <= Len(s) /\ IsDigit(s[i]) THEN SkipDigits(s, i + 1) ELSE i

\* _search_regex(r'(\d+)', s, default=None), from index i
RECURSIVE SearchDigitsFrom(_, _)
SearchDigitsFrom(s, i) ==
    IF i > Len(s) THEN None
    ELSE IF IsDigit(s[i]) THEN Some(Slice(s, i, SkipDigits(s, i) - 1))
         ELSE SearchDigitsFrom(s, i + 1)

SearchDigits(s) == SearchDigitsFrom(s, 1)

\* int(v) of a string of digits
RECURSIVE ParseInt(_)
ParseInt(v) ==
    IF v = << >> THEN 0
    ELSE ParseInt(Slice(v, 1, Len(v) - 1)) * 10 + DigitValue(v[Len(v)])

\* utils.int_or_none of an optional string of digits
int_or_none(v) == IF v = None THEN None ELSE Some(ParseInt(Val(v)))

\* try_get(data_dict, lambda x: _search_regex(date pattern, x['date'],
\* default=None).replace('/', ''), compat_str): the KeyError of a missing
\* 'date' and the AttributeError of None.replace are both swallowed
UploadDate(d) ==
    IF "date" \notin DOMAIN d THEN None
    ELSE IF SearchDate(d["date"]) = None THEN None
         ELSE Some(RemoveChar(Val(SearchDate(d["date"])), "/"))

ViewCount(d) == int_or_none(SearchDigits(d["audience"]))

LikeCount(d) == int_or_none(SearchDigits(d["nice"]))

(***************************************************************************)
(* FieldMap construction (data_dict).                                      *)
(* A page's matches of r'(?s)<(p|div)\s+class="([^" ]+?)">(.+?)</\1>' are   *)
(* its blocks, in page order: [label |-> group(2), content |-> group(3)].  *)
(***************************************************************************)
BlockLabels(blocks) == {blocks[i].label : i \in DOMAIN blocks}

\* the index of the last block of label l
LastIndex(blocks, l) ==
    CHOOSE i \in DOMAIN blocks :
        /\ blocks[i].label = l
        /\ \A j \in DOMAIN blocks : blocks[j].label = l => j <= i

\* {g.group(2): clean_html(g.group(3)) for g in re.finditer(...)}: a later
\* block of a label overwrites an earlier one
CleanDict(blocks) ==
    [l \in BlockLabels(blocks) |-> clean_html(blocks[LastIndex(blocks, l)].content)]

\* {k: re.sub(r'\s+', ' ', v) for k, v in data_dict.items() if v}
CollapseDict(d) ==
    [k \in {l \in DOMAIN d : d[l] # << >>} |-> CollapseSpaces(d[k])]

FieldMap(blocks) == CollapseDict(CleanDict(blocks))

\* '%(song_title)s-%(song_artist)s-%(user_name)s' % data_dict
Title(d) == d["song_title"] \o <<"-">> \o d["song_artist"] \o <<"-">> \o d["user_name"]

\* the keys the format string looks up, in its order
TitleKeys == <<"song_title", "song_artist", "user_name">>

\* the first key of the sequence keys that d lacks, None when it has all
RECURSIVE FirstMissing(_, _)
FirstMissing(keys, d) ==
    IF keys = << >> THEN None
    ELSE IF Head(keys) \notin DOMAIN d THEN Some(Head(keys))
         ELSE FirstMissing(Tail(keys), d)

(***************************************************************************)
(* The two extractors.                                                     *)
(***************************************************************************)
IEs == {"damtomo:video", "damtomo:record"}

SORRY_URL == "https://www.clubdam.com/sorry/"

PageURL(e, id) ==
    IF e = "damtomo:video"
    THEN "https://www.clubdam.com/app/damtomo/karaokeMovie/StreamingDkm.do?karaokeMovieId=" \o id
    ELSE "https://www.clubdam.com/app/damtomo/karaokePost/StreamingKrk.do?karaokeContributeId=" \o id

ManifestURL(e, id) ==
    IF e = "damtomo:video"
    THEN "https://www.clubdam.com/app/damtomo/karaokeMovie/GetStreamingDkmUrlXML.do?movieSelectFlg=2&karaokeMovieId=" \o id
    ELSE "https://www.clubdam.com/app/damtomo/karaokePost/GetStreamingKrkUrlXML.do?karaokeContributeId=" \o id

\* the namespace bound to the prefix d of the XPath
Namespace(e) ==
    IF e = "damtomo:video"
    THEN "https://www.clubdam.com/app/damtomo/karaokeMovie/GetStreamingDkmUrlXML"
    ELSE "https://www.clubdam.com/app/damtomo/karaokePost/GetStreamingKrkUrlXML"

\* x.find('.//d:streamingUrl', {'d': ns}): the first descendant, in document
\* order, of that qualified name; None when there is none.  A tree is the
\* sequence of its descendants [ns, tag, text].
RECURSIVE Find(_, _)
Find(tree, ns) ==
    IF tree = << >> THEN None
    ELSE IF Head(tree).ns = ns /\ Head(tree).tag = "streamingUrl" THEN Some(Head(tree))
         ELSE Find(Tail(tree), ns)

\* try_get(stream_tree, lambda x: x.find(...).text.strip(), compat_str): the
\* AttributeError of a missing element or of a missing text gives None
M3u8Url(tree, e) ==
    IF Find(tree, Namespace(e)) = None THEN None
    ELSE IF Val(Find(tree, Namespace(e))).text = None THEN None
         ELSE Some(Strip(Val(Val(Find(tree, Namespace(e))).text)))


\* mutant: "m3u8_url is None" in place of "not m3u8_url"
Falsy_NoneOnly(o) == o = None

\* not m3u8_url: None and the empty string are both false
Falsy(o) == o = None \/ Val(o) = << >>

ExtractorError(msg, expected) ==
    [type |-> "ExtractorError", arg |-> msg, expected |-> expected]

KeyError(key) == [type |-> "KeyError", arg |-> key, expected |-> FALSE]

MSG_RATE == "You are rate-limited. Try again later."

MSG_SERVER == "There is an error on server-side. Try again later."

MSG_M3U8 == "Failed to obtain m3u8 URL"

(***************************************************************************)
(* The inputs: URLs to extract, the pages and the manifests the site may   *)
(* answer with.                                                            *)
(***************************************************************************)
VideoIds == {"2414316", "27376862"}

\* the concatenations of exactly n chunks of C
RECURSIVE Cat(_, _)
Cat(C, n) == IF n = 1 THEN C ELSE {a \o b : a \in C, b \in Cat(C, n - 1)}

\* the concatenations of 1 to n chunks of C
Strings(C, n) == UNION {Cat(C, k) : k \in 1..n}

\* the sequences of 2 to n elements of C
RECURSIVE Lists(_, _)
Lists(C, n) ==
    IF n < 2 THEN {}
    ELSE {<<a, b>> : a \in C, b \in C} \cup {<<a>> \o t : a \in C, t \in Lists(C, n - 1)}

NameChunks == {<<"N">>, SAN, <<" ">>}

DATE1 == <<"2", "0", "2", "1", "/", "0", "7", "/", "2", "1">>

DATE2 == <<"2", "0", "2", "0", "/", "1", "2", "/", "2", "6">>

DateChunks ==
    {DATE1, DATE2, <<"1">>, <<"x">>, <<"0", "2", "1", "/", "0", "7", "/", "2">>}

CountChunks == {<<"4">>, <<"1", "2">>, <<"0">>, <<"x">>, <<"x", "7">>}

LikeChunks == {<<"3">>, <<"1", "0">>, <<"x">>}

\* contents with markup and line breaks, for clean_html and the collapsing
MarkupContents ==
    { <<"<", "b", ">", "T", "<", "/", "b", ">">>,
      <<"\n", "T", "\n", "\t", "U", " ">>,
      <<"<", "b", ">", " ", "<", "/", "b", ">">>,
      <<"T", "<", "U">> }

DupContents == {<<"N">>, <<"M", "sa", "n">>, <<" ">>}

Labels == {"user_name", "song_title", "song_artist", "audience", "nice", "date"}

LabelOrder == <<"user_name", "song_title", "song_artist", "audience", "nice", "date">>

DefaultContent(l) ==
    CASE l = "user_name" -> <<"N", "sa", "n">>
      [] l = "song_title" -> <<"T">>
      [] l = "song_artist" -> <<"R">>
      [] l = "audience" -> <<"4", " ", "v">>
      [] l = "nice" -> <<"1">>
      [] l = "date" -> DATE1 \o <<" ", "1", "2", ":", "0", "0">>

\* a layout gives, for every label, the contents of its blocks in page order
DefaultLayout == [l \in Labels |-> <<DefaultContent(l)>>]

PresenceLayouts ==
    {[l \in Labels |-> IF l \in S THEN <<DefaultContent(l)>> ELSE << >>] : S \in SUBSET Labels}

VariedLayouts(l, C) == {[DefaultLayout EXCEPT ![l] = <<c>>] : c \in C}

DupLayouts(l) == {[DefaultLayout EXCEPT ![l] = cs] : cs \in Lists(DupContents, MaxBlocks)}

Layouts ==
    PresenceLayouts
      \cup VariedLayouts("user_name", Strings(NameChunks, MaxNameChunks))
      \cup VariedLayouts("date", Strings(DateChunks, MaxChunks))
      \cup VariedLayouts("audience", Strings(CountChunks, MaxChunks))
      \cup VariedLayouts("nice", Strings(LikeChunks, MaxChunks))
      \cup VariedLayouts("song_title", MarkupContents)
      \cup DupLayouts("user_name")
      \cup DupLayouts("date")

BlocksOf(layout) ==
    Concat([i \in DOMAIN LabelOrder |->
              [j \in DOMAIN layout[LabelOrder[i]] |->
                 [label |-> LabelOrder[i], content |-> layout[LabelOrder[i]][j]]]])

PageBlocks == {BlocksOf(layout) : layout \in Layouts}

\* what the description and the uploader_id patterns capture, None for no match
PageMetas ==
    {[description |-> None, uploader_id |-> None],
     [description |-> Some(<<"c">>), uploader_id |-> Some(<<"I">>)]}

\* the URL the page request ends at, after redirects
FinalUrls(e, id) == {SORRY_URL, PageURL(e, id)}

Element(ns, tag, text) == [ns |-> ns, tag |-> tag, text |-> text]

Other(e) == CHOOSE o \in IEs : o # e

UrlElem(e, text) == Element(Namespace(e), "streamingUrl", text)

URL == <<"u", "r", "l">>

Texts == {None, Some(<< >>), Some(<<" ", "\n">>), Some(<<" ">> \o URL \o <<"\n">>), Some(URL)}

StatusElem(e) == Element(Namespace(e), "status", Some(<<"o", "k">>))

\* the manifests extractor e may be answered with
Trees(e) ==
    {<< >>, <<StatusElem(e)>>, <<UrlElem(Other(e), Some(URL))>>}
      \cup {<<UrlElem(e, t)>> : t \in Texts}
      \cup {<<x, UrlElem(e, Some(URL))>> :
              x \in {StatusElem(e), UrlElem(e, None), UrlElem(Other(e), Some(<<"v">>))}}
      \cup {<<UrlElem(e, Some(URL)), UrlElem(e, Some(<<"v">>))>>}

(***************************************************************************)
(* _real_extract, one action per step.                                     *)
(***************************************************************************)
EmptyDict == << >>

Init ==
    /\ ie \in IEs
    /\ video_id \in VideoIds
    /\ pc = "start"
    /\ requests = << >>
    /\ handle_url = None
    /\ webpage = None
    /\ description = None
    /\ uploader_id = None
    /\ data_dict = EmptyDict
    /\ title = None
    /\ stream_tree = None
    /\ m3u8_url = None
    /\ result = None
    /\ err = None

\* raise: the call ends with the exception and returns nothing
Raise(e) == pc' = "done" /\ err' = Some(e) /\ result' = None

\* _download_webpage_handle sends the page request and blocks
RequestPage ==
    /\ pc = "start"
    /\ requests' = Append(requests, PageURL(ie, video_id))
    /\ pc' = "page_requested"
    /\ UNCHANGED <<ie, video_id, handle_url, webpage, description, uploader_id,
                   data_dict, title, stream_tree, m3u8_url, result, err>>

\* the page response arrives: webpage, handle
ReceivePage ==
    /\ pc = "page_requested"
    /\ \E url \in FinalUrls(ie, video_id), marker \in BOOLEAN, blocks \in PageBlocks,
          meta \in PageMetas :
          /\ handle_url' = Some(url)
          /\ webpage' = Some([marker |-> marker, blocks |-> blocks,
                              description |-> meta.description,
                              uploader_id |-> meta.uploader_id])
    /\ pc' = "page_received"
    /\ UNCHANGED <<ie, video_id, requests, description, uploader_id,
                   data_dict, title, stream_tree, m3u8_url, result, err>>


\* mutant: the landing URL compared without its trailing slash
IsRateLimited_NoSlash(url) == url = "https://www.clubdam.com/sorry"

\* handle.url == 'https://www.clubdam.com/sorry/'
IsRateLimited(url) == url = SORRY_URL

\* '<h2>...</h2>' in webpage
HasServerError(page) == page.marker


\* mutant: the server error is reported but not raised
CheckPage_NoRaise ==
    /\ pc = "page_received"
    /\ IF IsRateLimited(Val(handle_url))
       THEN Raise(ExtractorError(MSG_RATE, TRUE))
       ELSE IF HasServerError(Val(webpage))
            THEN /\ err' = Some(ExtractorError(MSG_SERVER, TRUE))
                 /\ pc' = "checked"
                 /\ UNCHANGED result
            ELSE pc' = "checked" /\ UNCHANGED <<result, err>>
    /\ UNCHANGED <<ie, video_id, requests, handle_url, webpage, description,
                   uploader_id, data_dict, title, stream_tree, m3u8_url>>

\* mutant: the two checks in the other order
CheckPage_ServerFirst ==
    /\ pc = "page_received"
    /\ IF HasServerError(Val(webpage))
       THEN Raise(ExtractorError(MSG_SERVER, TRUE))
       ELSE IF IsRateLimited(Val(handle_url))
            THEN Raise(ExtractorError(MSG_RATE, TRUE))
            ELSE pc' = "checked" /\ UNCHANGED <<result, err>>
    /\ UNCHANGED <<ie, video_id, requests, handle_url, webpage, description,
                   uploader_id, data_dict, title, stream_tree, m3u8_url>>

\* the two checks of the page response
CheckPage ==
    /\ pc = "page_received"
    /\ IF IsRateLimited(Val(handle_url))
       THEN Raise(ExtractorError(MSG_RATE, TRUE))
       ELSE IF HasServerError(Val(webpage))
            THEN Raise(ExtractorError(MSG_SERVER, TRUE))
            ELSE pc' = "checked" /\ UNCHANGED <<result, err>>
    /\ UNCHANGED <<ie, video_id, requests, handle_url, webpage, description,
                   uploader_id, data_dict, title, stream_tree, m3u8_url>>

\* description, uploader_id and data_dict are scraped from the page
Scrape ==
    /\ pc = "checked"
    /\ description' = Val(webpage).description
    /\ uploader_id' = Val(webpage).uploader_id
    /\ data_dict' = FieldMap(Val(webpage).blocks)
    /\ pc' = "scraped"
    /\ UNCHANGED <<ie, video_id, requests, handle_url, webpage, title,
                   stream_tree, m3u8_url, result, err>>

\* data_dict['user_name'] loses its suffix, then the title is composed
NameTitle ==
    /\ pc = "scraped"
    /\ IF "user_name" \notin DOMAIN data_dict
       THEN /\ Raise(KeyError("user_name"))
            /\ UNCHANGED <<data_dict, title>>
       ELSE LET d == [data_dict EXCEPT !["user_name"] = SubSan(data_dict["user_name"])]
            IN  /\ data_dict' = d
                /\ IF FirstMissing(TitleKeys, d) # None
                   THEN /\ Raise(KeyError(Val(FirstMissing(TitleKeys, d))))
                        /\ UNCHANGED title
                   ELSE /\ title' = Some(Title(d))
                        /\ pc' = "titled"
                        /\ UNCHANGED <<result, err>>
    /\ UNCHANGED <<ie, video_id, requests, handle_url, webpage, description,
                   uploader_id, stream_tree, m3u8_url>>

\* _download_xml sends the manifest request and blocks
RequestManifest ==
    /\ pc = "titled"
    /\ requests' = Append(requests, ManifestURL(ie, video_id))
    /\ pc' = "manifest_requested"
    /\ UNCHANGED <<ie, video_id, handle_url, webpage, description, uploader_id,
                   data_dict, title, stream_tree, m3u8_url, result, err>>

\* the manifest response arrives, parsed: stream_tree
ReceiveManifest ==
    /\ pc = "manifest_requested"
    /\ \E tree \in Trees(ie) : stream_tree' = Some(tree)
    /\ pc' = "manifest_received"
    /\ UNCHANGED <<ie, video_id, requests, handle_url, webpage, description,
                   uploader_id, data_dict, title, m3u8_url, result, err>>


\* mutant: a manifest without URL is requested once more
ResolveManifest_Retry ==
    /\ pc = "manifest_received"
    /\ m3u8_url' = M3u8Url(Val(stream_tree), ie)
    /\ IF Falsy(m3u8_url')
       THEN IF Len(requests) < 3
            THEN pc' = "titled" /\ UNCHANGED <<result, err>>
            ELSE Raise(ExtractorError(MSG_M3U8, FALSE))
       ELSE pc' = "resolved" /\ UNCHANGED <<result, err>>
    /\ UNCHANGED <<ie, video_id, requests, handle_url, webpage, description,
                   uploader_id, data_dict, title, stream_tree>>

\* m3u8_url is looked up; without it the call fails
ResolveManifest ==
    /\ pc = "manifest_received"
    /\ m3u8_url' = M3u8Url(Val(stream_tree), ie)
    /\ IF Falsy(m3u8_url')
       THEN Raise(ExtractorError(MSG_M3U8, FALSE))
       ELSE pc' = "resolved" /\ UNCHANGED <<result, err>>
    /\ UNCHANGED <<ie, video_id, requests, handle_url, webpage, description,
                   uploader_id, data_dict, title, stream_tree>>


\* mutant: upload_date read as data_dict['date'], outside try_get
AssembleKeys_WithDate ==
    <<"user_name", "date", "audience", "nice", "song_title", "song_artist">>

\* the keys the returned dict subscripts data_dict with, in its order
AssembleKeys == <<"user_name", "audience", "nice", "song_title", "song_artist">>

Formats(url) ==
    <<[format_id |-> "hls", url |-> url, ext |-> "mp4", protocol |-> "m3u8_native"]>>

InfoDict ==
    [id |-> video_id,
     title |-> Val(title),
     uploader_id |-> uploader_id,
     description |-> description,
     formats |-> Formats(Val(m3u8_url)),
     uploader |-> data_dict["user_name"],
     upload_date |-> UploadDate(data_dict),
     view_count |-> ViewCount(data_dict),
     like_count |-> LikeCount(data_dict),
     song_title |-> data_dict["song_title"],
     song_artist |-> data_dict["song_artist"]]

\* the result is assembled and returned
Assemble ==
    /\ pc = "resolved"
    /\ IF FirstMissing(AssembleKeys, data_dict) # None
       THEN Raise(KeyError(Val(FirstMissing(AssembleKeys, data_dict))))
       ELSE /\ result' = Some(InfoDict)
            /\ pc' = "done"
            /\ UNCHANGED err
    /\ UNCHANGED <<ie, video_id, requests, handle_url, webpage, description,
                   uploader_id, data_dict, title, stream_tree, m3u8_url>>

Next ==
    \/ RequestPage
    \/ ReceivePage
    \/ CheckPage
    \/ Scrape
    \/ NameTitle
    \/ RequestManifest
    \/ ReceiveManifest
    \/ ResolveManifest
    \/ Assemble

Spec == Init /\ [][Next]_vars

(***************************************************************************)
(* Vocabulary of the properties.                                           *)
(***************************************************************************)
RateLimited == ExtractorError(MSG_RATE, TRUE)

ServerError == ExtractorError(MSG_SERVER, TRUE)

ManifestNotFound == ExtractorError(MSG_M3U8, FALSE)

MissingField(key) == KeyError(key)

Done == pc = "done"

Succeeded == Done /\ result # None

Failed == Done /\ err # None

\* the FieldMap as scraped from the received page, before the post-processing
Scraped == FieldMap(Val(webpage).blocks)

RequiredKeys == {"user_name", "song_title", "song_artist", "audience", "nice"}

\* the manifest's first streamingUrl element of the extractor's namespace
IsUrlElement(x) == x.ns = Namespace(ie) /\ x.tag = "streamingUrl"

HasUrlElement == \E i \in DOMAIN Val(stream_tree) : IsUrlElement(Val(stream_tree)[i])

UrlElement ==
    Val(stream_tree)[CHOOSE i \in DOMAIN Val(stream_tree) :
                       /\ IsUrlElement(Val(stream_tree)[i])
                       /\ \A j \in 1..(i - 1) : ~IsUrlElement(Val(stream_tree)[j])]

Blank(t) == \A k \in DOMAIN t : IsSpace(t[k])

\* t without its leading and trailing whitespace, for a t that is not blank
Trimmed(t) ==
    LET inner == {k \in DOMAIN t : ~IsSpace(t[k])}
        a == CHOOSE k \in inner : \A m \in inner : k <= m
        b == CHOOSE k \in inner : \A m \in inner : m <= k
    IN  SubSeq(t, a, b)

NoManifestUrl ==
    \/ ~HasUrlElement
    \/ UrlElement.text = None
    \/ Blank(Val(UrlElement.text))

EndsWith(s, t) == Len(s) >= Len(t) /\ SubSeq(s, Len(s) - Len(t) + 1, Len(s)) = t

RECURSIVE Pow10(_)
Pow10(n) == IF n = 0 THEN 1 ELSE 10 * Pow10(n - 1)

RECURSIVE Sum(_, _)
Sum(f, S) ==
    IF S = {} THEN 0
    ELSE LET x == CHOOSE y \in S : TRUE IN f[x] + Sum(f, S \ {x})

\* the value of the leftmost maximal run of digits of s, None without a digit
FirstNumber(s) ==
    LET digits == {k \in DOMAIN s : s[k] \in Digits}
    IN  IF digits = {} THEN None
        ELSE LET a == CHOOSE k \in digits : \A m \in digits : k <= m
                 b == CHOOSE k \in a..Len(s) :
                        /\ \A m \in a..k : m \in digits
                        /\ (k + 1) \notin digits
             IN  Some(Sum([k \in a..b |-> DigitValue(s[k]) * Pow10(b - k)], a..b))

\* t has the shape DDDD/DD/DD
DateShaped(t) ==
    /\ Len(t) = 10
    /\ t[5] = "/" /\ t[8] = "/"
    /\ \A k \in {1, 2, 3, 4, 6, 7, 9, 10} : t[k] \in Digits

DateStarts(s) == {i \in 1..(Len(s) - 9) : DateShaped(SubSeq(s, i, i + 9))}

\* the first DDDD/DD/DD of s without its slashes, None when s has none
FirstDate(s) ==
    IF DateStarts(s) = {} THEN None
    ELSE LET i == CHOOSE k \in DateStarts(s) : \A m \in DateStarts(s) : k <= m
         IN  Some(<<s[i], s[i + 1], s[i + 2], s[i + 3], s[i + 5], s[i + 6], s[i + 8], s[i + 9]>>)

(***************************************************************************)
(* C1: whenever the page request ends at the rate-limit landing URL, the   *)
(* call ends with the expected RateLimited error and no result, whatever   *)
(* the page holds, and no manifest request is issued.                      *)
(***************************************************************************)
C1_RateLimited ==
    handle_url = Some(SORRY_URL) =>
        /\ requests = <<PageURL(ie, video_id)>>
        /\ pc \in {"page_received", "done"}
        /\ Done => /\ err = Some(RateLimited)
                   /\ Val(err).expected
                   /\ result = None

C1_Witness ==
    /\ Done
    /\ handle_url = Some(SORRY_URL)
    /\ Val(webpage).marker
    /\ "user_name" \notin DOMAIN Scraped
    /\ err = Some(RateLimited)

(***************************************************************************)
(* C2: after a page that passed both checks and holds every required       *)
(* field, a manifest without a streamingUrl element, without text or with  *)
(* blank text ends the call with ManifestNotFound and no result; otherwise *)
(* the record's single format URL is the trimmed text, which is not empty. *)
(***************************************************************************)
C2_Manifest ==
    (Done /\ stream_tree # None /\ RequiredKeys \subseteq DOMAIN data_dict) =>
        IF NoManifestUrl
        THEN err = Some(ManifestNotFound) /\ result = None
        ELSE /\ result # None
             /\ Len(Val(result).formats) = 1
             /\ Val(result).formats[1].url = Trimmed(Val(UrlElement.text))
             /\ Val(result).formats[1].url # << >>

C2_Witness ==
    /\ Done
    /\ Labels \subseteq DOMAIN data_dict
    /\ HasUrlElement
    /\ UrlElement.text # None
    /\ Val(UrlElement.text) # << >>
    /\ Blank(Val(UrlElement.text))
    /\ err = Some(ManifestNotFound)

(***************************************************************************)
(* C3: extraction is all-or-nothing.  A call that is not over has returned *)
(* nothing and raised nothing, and every step moves it forward in          *)
(* _real_extract (no step is repeated); a call that is over has either a   *)
(* complete record and no error, or exactly one of the four errors and no  *)
(* record.                                                                 *)
(***************************************************************************)
CompleteRecord(r) ==
    /\ r.id = video_id
    /\ Len(r.formats) = 1
    /\ r.formats[1].url # << >>
    /\ r.song_title # << >>
    /\ r.song_artist # << >>
    /\ r.uploader = data_dict["user_name"]
    /\ r.title = r.song_title \o <<"-">> \o r.song_artist \o <<"-">> \o r.uploader

KnownError(e) ==
    \/ e \in {RateLimited, ServerError, ManifestNotFound}
    \/ \E k \in Labels : e = MissingField(k)

\* the position of the call in _real_extract
Rank(p) ==
    CASE p = "start" -> 0
      [] p = "page_requested" -> 1
      [] p = "page_received" -> 2
      [] p = "checked" -> 3
      [] p = "scraped" -> 4
      [] p = "titled" -> 5
      [] p = "manifest_requested" -> 6
      [] p = "manifest_received" -> 7
      [] p = "resolved" -> 8
      [] p = "done" -> 9

C3_Outcome ==
    /\ ~Done => result = None /\ err = None
    /\ Done => \/ result # None /\ err = None /\ CompleteRecord(Val(result))
               \/ result = None /\ err # None /\ KnownError(Val(err))

C3_AllOrNothing == [](C3_Outcome) /\ [][Rank(pc') > Rank(pc)]_vars

C3_Witness == Done /\ result = None /\ err = Some(MissingField("audience"))

(***************************************************************************)
(* C4, as claimed: a successful result implies that the FieldMap held all  *)
(* six keys user_name, song_title, song_artist, audience, nice and date,   *)
(* and a call that got past both page checks and found its manifest URL    *)
(* fails with MissingField when one of the six is absent.                  *)
(***************************************************************************)
PastChecks == Done /\ handle_url # Some(SORRY_URL) /\ ~Val(webpage).marker

ManifestFound == stream_tree = None \/ ~NoManifestUrl

C4_Original ==
    /\ Succeeded => Labels \subseteq DOMAIN Scraped
    /\ (PastChecks /\ ManifestFound /\ ~(Labels \subseteq DOMAIN Scraped)) =>
           \E k \in Labels \ DOMAIN Scraped : err = Some(MissingField(k))

(***************************************************************************)
(* C4, amended: a successful result implies that the FieldMap held the     *)
(* five keys user_name, song_title, song_artist, audience and nice; a call *)
(* that got past both page checks and found its manifest URL fails with    *)
(* MissingField of an absent key when one of the five is absent.  A        *)
(* missing date fails nothing: the result has no upload_date.              *)
(***************************************************************************)
C4_Amended ==
    /\ Succeeded => RequiredKeys \subseteq DOMAIN Scraped
    /\ (PastChecks /\ ManifestFound /\ ~(RequiredKeys \subseteq DOMAIN Scraped)) =>
           /\ result = None
           /\ \E k \in RequiredKeys \ DOMAIN Scraped : err = Some(MissingField(k))
    /\ (PastChecks /\ stream_tree # None /\ ~NoManifestUrl
          /\ RequiredKeys \subseteq DOMAIN Scraped /\ "date" \notin DOMAIN Scraped) =>
           /\ result # None
           /\ Val(result).upload_date = None

C4_Witness == Succeeded /\ "date" \notin DOMAIN Scraped /\ Val(result).upload_date = None

(***************************************************************************)
(* C5: the page request is the first thing a call does and is issued once; *)
(* the manifest request is issued at most once and only when the page      *)
(* response has been received; a step that issues a request issues one,    *)
(* in a call that has not failed, and no request is ever taken back.       *)
(***************************************************************************)
C5_Order ==
    /\ requests \in {<< >>, <<PageURL(ie, video_id)>>,
                     <<PageURL(ie, video_id), ManifestURL(ie, video_id)>>}
    /\ pc # "start" => Len(requests) >= 1
    /\ pc = "page_requested" => Len(requests) = 1 /\ webpage = None
    /\ Len(requests) = 2 => webpage # None /\ handle_url # None
    /\ pc = "manifest_requested" => Len(requests) = 2 /\ stream_tree = None
    /\ Failed => pc = "done"

C5_Step ==
    requests' # requests =>
        /\ err = None
        /\ ~Done
        /\ \E u \in {PageURL(ie, video_id), ManifestURL(ie, video_id)} :
              requests' = Append(requests, u)

C5_Requests == [](C5_Order) /\ [][C5_Step]_vars

C5_Witness == Failed /\ Len(requests) = 2 /\ err = Some(ManifestNotFound)

(***************************************************************************)
(* C6: in a successful result, upload_date is the first DDDD/DD/DD of the  *)
(* date field without its two slashes, 8 digits; without such a substring  *)
(* upload_date is absent, and no call fails over the date field.           *)
(***************************************************************************)
C6_UploadDate ==
    /\ Succeeded =>
          /\ Val(result).upload_date =
                (IF "date" \in DOMAIN Scraped THEN FirstDate(Scraped["date"]) ELSE None)
          /\ Val(result).upload_date # None =>
                /\ Len(Val(Val(result).upload_date)) = 8
                /\ \A k \in 1..8 : Val(Val(result).upload_date)[k] \in Digits
    /\ Failed => err # Some(MissingField("date"))

C6_Witness ==
    /\ Succeeded
    /\ "date" \in DOMAIN Scraped
    /\ Cardinality(DateStarts(Scraped["date"])) = 2
    /\ Val(result).upload_date = Some(<<"2", "0", "2", "0", "1", "2", "2", "6">>)

C6_WitnessAbsent ==
    /\ Succeeded
    /\ "date" \in DOMAIN Scraped
    /\ DateStarts(Scraped["date"]) = {}
    /\ Val(result).upload_date = None

(***************************************************************************)
(* C7: in a successful result, view_count is the value of the leftmost     *)
(* maximal run of digits of the audience field and like_count that of the  *)
(* nice field; a field without a digit gives an absent count.              *)
(***************************************************************************)
C7_Counts ==
    Succeeded =>
        /\ Val(result).view_count = FirstNumber(Scraped["audience"])
        /\ Val(result).like_count = FirstNumber(Scraped["nice"])

C7_Witness ==
    /\ Succeeded
    /\ Scraped["audience"] = <<"x", "1", "2">>
    /\ Val(result).view_count = Some(12)

C7_WitnessAbsent ==
    /\ Succeeded
    /\ Scraped["nice"] = <<"x">>
    /\ Val(result).like_count = None

(***************************************************************************)
(* C8: when the title is composed, and in a successful result, the         *)
(* post-processed user_name is the                                         *)
(* scraped one without one trailing suffix and the whitespace before it    *)
(* when the scraped one ends in the suffix, and the scraped one unchanged  *)
(* otherwise; the title ends in "-" and this value, and the uploader of a  *)
(* result is this value.                                                   *)
(***************************************************************************)
\* out is raw without one trailing SAN and the whitespace before it
StrippedOnce(raw, out) ==
    /\ \E w \in 0..Len(raw) :
          /\ Len(raw) = Len(out) + w + 2
          /\ raw = out \o SubSeq(raw, Len(out) + 1, Len(out) + w) \o SAN
          /\ Blank(SubSeq(raw, Len(out) + 1, Len(out) + w))
    /\ out = << >> \/ ~IsSpace(out[Len(out)])

C8_Suffix ==
    /\ (pc = "titled" \/ Succeeded) =>
          /\ IF EndsWith(Scraped["user_name"], SAN)
             THEN StrippedOnce(Scraped["user_name"], data_dict["user_name"])
             ELSE data_dict["user_name"] = Scraped["user_name"]
          /\ EndsWith(Val(title), <<"-">> \o data_dict["user_name"])
    /\ Succeeded => Val(result).uploader = data_dict["user_name"]

C8_Witness ==
    /\ Succeeded
    /\ Scraped["user_name"] = <<"sa", "n", "N", "sa", "n">>
    /\ Val(result).uploader = <<"sa", "n", "N">>

C8_WitnessSpace ==
    /\ Succeeded
    /\ Scraped["user_name"] = <<"N", " ", "sa", "n">>
    /\ Val(result).uploader = <<"N">>

(***************************************************************************)
(* C9, as claimed: of several blocks of one label the FieldMap keeps the   *)
(* cleaned value of the last, an entry whose cleaned value is empty is     *)
(* dropped, and no entry used to assemble a result, user_name after the    *)
(* suffix stripping included, is empty.                                    *)
(***************************************************************************)
LastContent(l) ==
    LET blocks == Val(webpage).blocks
        occ == {i \in DOMAIN blocks : blocks[i].label = l}
    IN  blocks[CHOOSE i \in occ : \A j \in occ : j <= i].content

\* the FieldMap right after its construction
C9_LastWins ==
    pc = "scraped" =>
        /\ DOMAIN data_dict = {l \in BlockLabels(Val(webpage).blocks) :
                                  clean_html(LastContent(l)) # << >>}
        /\ \A l \in DOMAIN data_dict :
              /\ data_dict[l] = CollapseSpaces(clean_html(LastContent(l)))
              /\ data_dict[l] # << >>

C9_FieldMap ==
    /\ Succeeded =>
          /\ \A l \in DOMAIN data_dict : data_dict[l] # << >>
          /\ Val(result).uploader # << >>
    /\ C9_LastWins

(***************************************************************************)
(* C10: the error of a call is that of the first failing check, in the     *)
(* order RateLimited, ServerError, MissingField of user_name, song_title   *)
(* or song_artist (with no manifest request), ManifestNotFound,            *)
(* MissingField of audience or nice; a call none of them fails succeeds.   *)
(***************************************************************************)
EarlyKeys == {"user_name", "song_title", "song_artist"}

LateKeys == {"audience", "nice"}

C10_ErrorOrder ==
    Done =>
        IF handle_url = Some(SORRY_URL) THEN err = Some(RateLimited)
        ELSE IF Val(webpage).marker THEN err = Some(ServerError)
        ELSE IF ~(EarlyKeys \subseteq DOMAIN Scraped)
             THEN /\ \E k \in EarlyKeys \ DOMAIN Scraped : err = Some(MissingField(k))
                  /\ Len(requests) = 1
        ELSE IF NoManifestUrl THEN err = Some(ManifestNotFound)
        ELSE IF ~(LateKeys \subseteq DOMAIN Scraped)
             THEN \E k \in LateKeys \ DOMAIN Scraped : err = Some(MissingField(k))
        ELSE err = None /\ result # None

C10_Witness ==
    /\ Done
    /\ handle_url # Some(SORRY_URL)
    /\ ~Val(webpage).marker
    /\ "audience" \notin DOMAIN Scraped
    /\ stream_tree # None
    /\ NoManifestUrl
    /\ err = Some(ManifestNotFound)

C10_WitnessEarly ==
    /\ Done
    /\ "user_name" \notin DOMAIN Scraped
    /\ err = Some(MissingField("user_name"))
    /\ requests = <<PageURL(ie, video_id)>>

====
